---- MODULE Spec2Model ----
(***************************************************************************)
(* Model of daft/execution/logical_op_runners.py: the partition-local      *)
(* runner (LogicalPartitionOpRunner), the shuffle kernel                   *)
(* (PyRunnerSimpleShuffler) and the global runner (LogicalGlobalOpRunner). *)
(*                                                                         *)
(* A partition is the sequence of its rows.  A PartitionSet is a function  *)
(* from partition ids to partitions; in a PartitionSet the partition bound *)
(* to id i carries partition_id i.  Rows are integers: for operators that  *)
(* never look at the data (limit, coalesce, scan) a row is its position in *)
(* the source, for operators that do (sort, repartition) it is its key.    *)
(***************************************************************************)
EXTENDS Integers, Sequences, FiniteSets, TLC

VARIABLES
    node,             \* the global plan node being run: kind and parameters
    prev_part,        \* the child's PartitionSet, inputs[child_id]
    pc,               \* position of the handler
    output,           \* the PartitionSet returned (<<>> until then)
    err,              \* the exception raised ("" when none)
    map_args,         \* PyRunnerSimpleShuffler._map_args
    reduce_args,      \* PyRunnerSimpleShuffler._reduce_args
    map_results,      \* PyRunnerSimpleShuffler.run: list of map_fn results
    reduce_inputs,    \* the lists handed to reduce_fn so far, one per target
    reduced_results,  \* PyRunnerSimpleShuffler.run: list of reduce_fn results
    source,           \* scan._source_info of the Scan nodes
    scanned,          \* what _handle_scan gave for each partition id asked
    runner,           \* the class whose run_node_list is running ("" when none)
    inputs,           \* run_node_list: the caller's mapping node id -> partition(set)
    nodes,            \* run_node_list: the list of nodes
    partition_id,     \* run_node_list: the partition the pipeline runs for
    part_set,         \* run_node_list: the registry, a copy of inputs
    idx,              \* run_node_list: iterations of the loop completed
    node_output,      \* run_node_list: the local variable output
    rpc,              \* run_node_list: "loop", "done" or "error"
    rerr,             \* run_node_list: the exception raised ("" when none)
    ret,              \* run_node_list: the value returned (<<>> until then)
    table,            \* Table.explode: the table it is called on
    to_explode,       \* Table.explode: the columns of the explode expressions
    exploded,         \* Table.explode: the table returned (<<>> until then)
    xpc,              \* Table.explode: "call", "done" or "error"
    xerr              \* Table.explode: the exception raised ("" when none)

globalVars == <<node, prev_part, pc, output, err>>
shuffleVars == <<map_args, reduce_args, map_results, reduce_inputs, reduced_results>>
scanVars == <<source, scanned>>
runVars == <<runner, inputs, nodes, partition_id, part_set, idx, node_output, rpc, rerr, ret>>
tableVars == <<table, to_explode, exploded, xpc, xerr>>
localVars == <<scanVars, runVars, tableVars>>
vars == <<node, prev_part, pc, output, err,
          map_args, reduce_args, map_results, reduce_inputs, reduced_results,
          source, scanned,
          runner, inputs, nodes, partition_id, part_set, idx, node_output, rpc, rerr, ret,
          table, to_explode, exploded, xpc, xerr>>

----------------------------------------------------------------------------
(* Bounds of the model. *)

\* most partitions of an input PartitionSet
MaxParts == 3
\* most rows of an input partition
MaxLen == 3
\* largest GlobalLimit._num
MaxNum == 4
\* most source partitions of a shuffle with an arbitrary map_fn
MaxSources == 3
\* most target partitions of a shuffle with an arbitrary map_fn
MaxTargets == 2
\* most partitions of the input of a repartition or a sort
MaxKeyedParts == 2
\* most rows, over all partitions, of the input of a repartition or a sort
MaxKeyedRows == 3
\* keys are 1..MaxKey
MaxKey == 2
\* most target partitions of a coalesce, a repartition or a sort
MaxNumPartitions == 2
\* most rows of a scanned in-memory source
MaxTableLen == 6
\* most partitions a scanned source is declared with
MaxScanPartitions == 3
\* most nodes of the list handed to run_node_list
MaxNodes == 3
\* most nodes of the list handed to run_node_list of the global runner
MaxGlobalNodes == 2
\* most rows of a table that is exploded
MaxTableRows == 2
\* most elements of a list of a table that is exploded
MaxListLen == 2

----------------------------------------------------------------------------
(* Python and partition primitives. *)

RECURSIVE SumTo(_, _)
\* sum(f[0..n-1]) for a function f over 0..n-1
SumTo(f, n) == IF n = 0 THEN 0 ELSE SumTo(f, n - 1) + f[n - 1]

\* list.count(x)
Count_(s, x) == Cardinality({p \in 1..Len(s) : s[p] = x})

\* number of partitions of a PartitionSet (dense ids)
NumPartitions(pset) == Cardinality(DOMAIN pset)

\* PartitionSet.len_of_partitions: the list of partition lengths, by id
LenOfPartitions(pset) == [i \in 1..NumPartitions(pset) |-> Len(pset[i - 1])]

RECURSIVE SeqSum(_)
\* sum(list)
SeqSum(s) == IF s = <<>> THEN 0 ELSE s[1] + SeqSum(Tail(s))

\* list(accumulate(list)): running sums
Accumulate(s) == [i \in 1..Len(s) |-> SeqSum(SubSeq(s, 1, i))]

\* bisect_right(a, x) on a sorted list: the insertion point after every
\* entry <= x, that is the number of entries <= x
BisectRight(a, x) == Cardinality({i \in 1..Len(a) : a[i] <= x})

\* Python list indexing a[i] with 0-based i; a negative i counts from the end
PyIndex(a, i) == IF i < 0 THEN a[Len(a) + i + 1] ELSE a[i + 1]

\* vPartition.head(num): the first min(num, len) rows
Head_(part, num) ==
    IF num >= Len(part) THEN part ELSE SubSeq(part, 1, num)

\* concatenation of the partitions of a PartitionSet in id order
RECURSIVE ConcatTo(_, _)
ConcatTo(pset, n) ==
    IF n = 0 THEN <<>> ELSE ConcatTo(pset, n - 1) \o pset[n - 1]

ConcatAll(pset) == ConcatTo(pset, NumPartitions(pset))

\* total number of rows of a PartitionSet
TotalRows(pset) == Len(ConcatAll(pset))

----------------------------------------------------------------------------
(* LogicalGlobalOpRunner.map_partitions *)

\* PartitionSet({i: func(part) for i, part in pset.partitions.items()});
\* applied[i] is func(part) for the partition bound to id i
MapPartitions(pset, applied) == [i \in DOMAIN pset |-> applied[i]]

----------------------------------------------------------------------------
(* LogicalGlobalOpRunner._handle_global_limit *)

size_per_partition == LenOfPartitions(prev_part)
total_size == SeqSum(size_per_partition)
cum_sum == Accumulate(size_per_partition)
where_to_cut_idx == BisectRight(cum_sum, node.num)
count_so_far == PyIndex(cum_sum, where_to_cut_idx - 1)
remainder == node.num - count_so_far

limit_map_func(pid, part) ==
    IF pid < where_to_cut_idx THEN part
    ELSE IF pid = where_to_cut_idx THEN Head_(part, remainder)
    ELSE Head_(part, 0)

\* if total_size <= num: return prev_part
GlobalLimitUnchanged ==
    /\ pc = "start" /\ node.kind = "GlobalLimit"
    /\ total_size <= node.num
    /\ output' = prev_part
    /\ pc' = "done"
    /\ UNCHANGED <<node, prev_part, err, shuffleVars, localVars>>

\* assert remainder >= 0 fails: AssertionError, nothing is returned
GlobalLimitAssertFails ==
    /\ pc = "start" /\ node.kind = "GlobalLimit"
    /\ total_size > node.num
    /\ ~(remainder >= 0)
    /\ err' = "AssertionError"
    /\ pc' = "error"
    /\ UNCHANGED <<node, prev_part, output, shuffleVars, localVars>>

\* return self.map_partitions(prev_part, limit_map_func)
GlobalLimitCut ==
    /\ pc = "start" /\ node.kind = "GlobalLimit"
    /\ total_size > node.num
    /\ remainder >= 0
    /\ output' = MapPartitions(prev_part,
                     [i \in DOMAIN prev_part |-> limit_map_func(i, prev_part[i])])
    /\ pc' = "done"
    /\ UNCHANGED <<node, prev_part, err, shuffleVars, localVars>>

----------------------------------------------------------------------------
(* daft.runners.shuffle_ops: the map_fn and reduce_fn of the shuffle ops.  *)

\* floor(a / b) for a >= 0, b > 0
FloorDiv(a, b) == a \div b

RECURSIVE Flatten(_)
\* vPartition.merge_partitions(list): the rows of the sub-partitions, in
\* list order
Flatten(parts) ==
    IF parts = <<>> THEN <<>> ELSE parts[1] \o Flatten(Tail(parts))

\* the sub-sequence of part at its positions up to upto that are in keep
RECURSIVE SelectPos(_, _, _)
SelectPos(part, keep, upto) ==
    IF upto = 0 THEN <<>>
    ELSE IF upto \in keep THEN Append(SelectPos(part, keep, upto - 1), part[upto])
    ELSE SelectPos(part, keep, upto - 1)

\* The sparse mapping {target: sub-partition} that sends the row at position
\* p of part to target assign[p]; a target without rows has no entry.
Route(part, assign) ==
    LET used == {assign[p] : p \in 1..Len(part)}
    IN  [t \in used |->
            SelectPos(part, {p \in 1..Len(part) : assign[p] = t}, Len(part))]

\* ShuffleOp.map_fn of an arbitrary shuffle op: any sparse mapping from
\* target ids to sub-partitions; the sub-partition source i emits for target
\* t is tagged <<i, t>>
AnyMapFn(i, output_partitions) ==
    {[t \in S |-> << <<i, t>> >>] : S \in SUBSET (0..(output_partitions - 1))}

\* CoalesceOp.map_fn: the whole partition goes to one target
CoalesceMapFn(part, pid, output_partitions, num_input_partitions) ==
    LET tgt == FloorDiv(pid * output_partitions, num_input_partitions)
    IN  {[t \in {tgt} |-> part]}

\* RepartitionRandomOp.map_fn: each row goes to one target, any of them
RepartitionRandomMapFn(part, output_partitions) ==
    {Route(part, assign) : assign \in [1..Len(part) -> 0..(output_partitions - 1)]}

\* the hash of a key: a fixed function of the key
Hash(key) == key * key + 1

\* RepartitionHashOp.map_fn: the row with key tuple k goes to hash(k) mod m
RepartitionHashMapFn(part, output_partitions, exprs) ==
    {Route(part, [p \in 1..Len(part) |-> Hash(exprs[part[p]]) % output_partitions])}

\* The bucket of a key: ascending, the first t with key < b[t+1], that is the
\* number of boundaries <= key; descending, the same against the boundaries
\* taken in reverse, that is the number of boundaries >= key.
Bucket(key, boundaries, desc) ==
    IF desc
      THEN Cardinality({j \in 1..Len(boundaries) : boundaries[j] >= key})
    ELSE Cardinality({j \in 1..Len(boundaries) : boundaries[j] <= key})

\* SortOp.map_fn: each row goes to the bucket of its key, rows kept in order
SortMapFn(part, output_partitions, expr, boundaries, desc) ==
    {Route(part, [p \in 1..Len(part) |-> Bucket(expr[part[p]], boundaries, desc)])}

\* mutant of MapFn: PyRunnerRepartitionHash is bound to the random op
MapFnHashIsRandom(nd, part, i, output_partitions, args) ==
    IF nd.kind = "Coalesce"
      THEN CoalesceMapFn(part, i, output_partitions, args.num_input_partitions)
    ELSE IF nd.kind = "Repartition"
      THEN RepartitionRandomMapFn(part, output_partitions)
    ELSE IF nd.kind = "Sort"
      THEN SortMapFn(part, output_partitions, args.expr, args.boundaries, args.desc)
    ELSE AnyMapFn(i, output_partitions)

\* the result of map_fn for source partition i: the set of results the op
\* may produce (one element when the op is deterministic)
MapFn(nd, part, i, output_partitions, args) ==
    IF nd.kind = "Coalesce"
      THEN CoalesceMapFn(part, i, output_partitions, args.num_input_partitions)
    ELSE IF nd.kind = "Repartition" /\ nd.scheme = "RANDOM"
      THEN RepartitionRandomMapFn(part, output_partitions)
    ELSE IF nd.kind = "Repartition" /\ nd.scheme = "HASH"
      THEN RepartitionHashMapFn(part, output_partitions, args.exprs)
    ELSE IF nd.kind = "Sort"
      THEN SortMapFn(part, output_partitions, args.expr, args.boundaries, args.desc)
    ELSE AnyMapFn(i, output_partitions)

\* r1 comes before r2, or ties with it, under the comparator
Precedes(r1, r2, expr, desc) ==
    IF desc THEN expr[r1] >= expr[r2] ELSE expr[r1] <= expr[r2]

RECURSIVE InsertSorted(_, _, _, _)
\* sorted with r inserted after every row that precedes or ties with it
InsertSorted(sorted, r, expr, desc) ==
    IF sorted = <<>> THEN <<r>>
    ELSE IF Precedes(sorted[1], r, expr, desc)
      THEN <<sorted[1]>> \o InsertSorted(Tail(sorted), r, expr, desc)
    ELSE <<r>> \o sorted

RECURSIVE SortRows(_, _, _)
\* vPartition.sort(expr, desc): the stable sort of the rows by their key
SortRows(rows, expr, desc) ==
    IF rows = <<>> THEN <<>>
    ELSE InsertSorted(SortRows(SubSeq(rows, 1, Len(rows) - 1), expr, desc),
                      rows[Len(rows)], expr, desc)

\* reduce_fn: the sub-partitions concatenated in list order; SortOp then
\* sorts the result
ReduceFn(nd, mapped_outputs, args) ==
    IF nd.kind = "Sort"
      THEN SortRows(Flatten(mapped_outputs), args.expr, args.desc)
    ELSE Flatten(mapped_outputs)

----------------------------------------------------------------------------
(* PyRunnerSimpleShuffler.run *)

source_partitions == NumPartitions(prev_part)

RECURSIVE ReduceListDescending(_, _, _)
\* mutant of ReduceList: the sources are visited in descending order
ReduceListDescending(mr, n, t) ==
    IF n = 0 THEN <<>>
    ELSE IF t \in DOMAIN mr[n]
      THEN <<mr[n][t]>> \o ReduceListDescending(mr, n - 1, t)
    ELSE ReduceListDescending(mr, n - 1, t)

RECURSIVE ReduceListSkipFirst(_, _, _)
\* mutant of ReduceList: range(1, n), source partition 0 is left out
ReduceListSkipFirst(mr, n, t) ==
    IF n <= 1 THEN <<>>
    ELSE IF t \in DOMAIN mr[n]
      THEN Append(ReduceListSkipFirst(mr, n - 1, t), mr[n][t])
    ELSE ReduceListSkipFirst(mr, n - 1, t)

RECURSIVE ReduceList(_, _, _)
\* [map_results[i][t] for i in range(n) if t in map_results[i]]
ReduceList(mr, n, t) ==
    IF n = 0 THEN <<>>
    ELSE IF t \in DOMAIN mr[n]
      THEN Append(ReduceList(mr, n - 1, t), mr[n][t])
    ELSE ReduceList(mr, n - 1, t)

\* mutant of Enumerate: the ids start at 1
EnumerateFromOne(list) == [i \in 1..Len(list) |-> list[i]]

\* {i: part for i, part in enumerate(list)}
Enumerate(list) == [i \in 0..(Len(list) - 1) |-> list[i + 1]]

\* one element of the list comprehension over range(source_partitions)
ShuffleMap ==
    /\ pc = "map"
    /\ Len(map_results) < source_partitions
    /\ LET i == Len(map_results) IN
       \E mr \in MapFn(node, prev_part[i], i, node.num_partitions, map_args) :
           map_results' = Append(map_results, mr)
    /\ UNCHANGED <<globalVars, map_args, reduce_args, reduce_inputs, reduced_results, localVars>>

\* the list comprehension is complete: enter the loop over the targets
ShuffleMapped ==
    /\ pc = "map"
    /\ Len(map_results) = source_partitions
    /\ pc' = "reduce"
    /\ UNCHANGED <<node, prev_part, output, err, shuffleVars, localVars>>

\* mutant of ShuffleReduce: the targets are taken in descending order
ShuffleReduceDescending ==
    /\ pc = "reduce"
    /\ Len(reduced_results) < node.num_partitions
    /\ LET t == node.num_partitions - 1 - Len(reduced_results)
           handed == ReduceList(map_results, source_partitions, t)
       IN  /\ reduce_inputs' = Append(reduce_inputs, handed)
           /\ reduced_results' =
                  Append(reduced_results, ReduceFn(node, handed, reduce_args))
    /\ UNCHANGED <<globalVars, map_args, reduce_args, map_results, localVars>>

\* one iteration of: for t in range(num_target_partitions)
ShuffleReduce ==
    /\ pc = "reduce"
    /\ Len(reduced_results) < node.num_partitions
    /\ LET t == Len(reduced_results)
           handed == ReduceList(map_results, source_partitions, t)
       IN  /\ reduce_inputs' = Append(reduce_inputs, handed)
           /\ reduced_results' =
                  Append(reduced_results, ReduceFn(node, handed, reduce_args))
    /\ UNCHANGED <<globalVars, map_args, reduce_args, map_results, localVars>>

\* return PartitionSet({i: part for i, part in enumerate(reduced_results)})
ShuffleReturn ==
    /\ pc = "reduce"
    /\ Len(reduced_results) = node.num_partitions
    /\ output' = Enumerate(reduced_results)
    /\ pc' = "done"
    /\ UNCHANGED <<node, prev_part, err, shuffleVars, localVars>>

ShuffleRun == ShuffleMap \/ ShuffleMapped \/ ShuffleReduce \/ ShuffleReturn

----------------------------------------------------------------------------
(* LogicalGlobalOpRunner._handle_repartition *)

\* scheme RANDOM: PyRunnerRepartitionRandom().run(prev_part, num_partitions)
HandleRepartitionRandom ==
    /\ pc = "start" /\ node.kind = "Repartition"
    /\ node.scheme = "RANDOM"
    /\ pc' = "map"
    /\ UNCHANGED <<node, prev_part, output, err, shuffleVars, localVars>>

\* mutant of HandleRepartitionHash: the exprs handed to the op give every
\* row the same key
HandleRepartitionHashNoKeys ==
    /\ pc = "start" /\ node.kind = "Repartition"
    /\ node.scheme = "HASH"
    /\ map_args' = [exprs |-> [r \in DOMAIN node.partition_by |-> 1]]
    /\ pc' = "map"
    /\ UNCHANGED <<node, prev_part, output, err,
                   reduce_args, map_results, reduce_inputs, reduced_results, localVars>>

\* scheme HASH: PyRunnerRepartitionHash(map_args={"exprs": ...}).run(...)
HandleRepartitionHash ==
    /\ pc = "start" /\ node.kind = "Repartition"
    /\ node.scheme = "HASH"
    /\ map_args' = [exprs |-> node.partition_by]
    /\ pc' = "map"
    /\ UNCHANGED <<node, prev_part, output, err,
                   reduce_args, map_results, reduce_inputs, reduced_results, localVars>>

\* any other scheme: raise NotImplementedError()
HandleRepartitionNotImplemented ==
    /\ pc = "start" /\ node.kind = "Repartition"
    /\ node.scheme \notin {"RANDOM", "HASH"}
    /\ err' = "NotImplementedError"
    /\ pc' = "error"
    /\ UNCHANGED <<node, prev_part, output, shuffleVars, localVars>>

----------------------------------------------------------------------------
(* LogicalGlobalOpRunner._handle_sort *)

SAMPLES_PER_PARTITION == 20

\* the sub-sequences of part
SubSequences(part) ==
    {SelectPos(part, S, Len(part)) : S \in SUBSET (1..Len(part))}

\* vPartition.sample(num): some rows of the partition, at most num of them,
\* and at least one when the partition has rows
Sample(part, num) ==
    {smp \in SubSequences(part) :
        /\ Len(smp) <= num
        /\ (part # <<>> => smp # <<>>)}

\* map_partitions(prev_part, sample_map_func) before the expression is
\* evaluated: every way to sample each partition
RECURSIVE SampledUpTo(_, _, _)
SampledUpTo(pset, num, n) ==
    IF n = 0 THEN {<<>>}
    ELSE {[i \in 0..(n - 1) |-> IF i = n - 1 THEN smp ELSE s[i]] :
             s \in SampledUpTo(pset, num, n - 1), smp \in Sample(pset[n - 1], num)}

SampledPartitions(pset, num) == SampledUpTo(pset, num, NumPartitions(pset))

\* eval_expression_list(exprs) on a partition: the key of each row
EvalExpression(part, expr) == [p \in 1..Len(part) |-> expr[part[p]]]

\* block.quantiles(num): the num - 1 equal-probability quantiles of the
\* values, each an observed value
Quantiles(values, num) ==
    LET sorted == SortRows(values, [k \in 1..MaxKey |-> k], FALSE)
    IN  [j \in 1..(num - 1) |-> sorted[((j * Len(sorted)) \div num) + 1]]

\* reduce_partitions(sampled_partitions, merge_partitions): the keys of the
\* sampled rows, in partition order
MergedSamples(sampled, expr) == EvalExpression(ConcatAll(sampled), expr)

\* mutant of HandleSort: map_args carries no desc, the map buckets ascending
HandleSortMapAscending ==
    /\ pc = "start" /\ node.kind = "Sort"
    /\ \E sampled \in SampledPartitions(prev_part, SAMPLES_PER_PARTITION) :
         LET first_column == MergedSamples(sampled, node.sort_by) IN
         /\ (first_column # <<>> \/ node.num_partitions = 1)
         /\ map_args' = [expr |-> node.sort_by,
                         boundaries |-> Quantiles(first_column, node.num_partitions),
                         desc |-> FALSE]
         /\ reduce_args' = [expr |-> node.sort_by, desc |-> node.desc]
    /\ pc' = "map"
    /\ UNCHANGED <<node, prev_part, output, err,
                   map_results, reduce_inputs, reduced_results, localVars>>

\* sample, merge the samples, take the quantiles, build the sort op
HandleSort ==
    /\ pc = "start" /\ node.kind = "Sort"
    /\ \E sampled \in SampledPartitions(prev_part, SAMPLES_PER_PARTITION) :
         LET first_column == MergedSamples(sampled, node.sort_by) IN
         /\ (first_column # <<>> \/ node.num_partitions = 1)
         /\ map_args' = [expr |-> node.sort_by,
                         boundaries |-> Quantiles(first_column, node.num_partitions),
                         desc |-> node.desc]
         /\ reduce_args' = [expr |-> node.sort_by, desc |-> node.desc]
    /\ pc' = "map"
    /\ UNCHANGED <<node, prev_part, output, err,
                   map_results, reduce_inputs, reduced_results, localVars>>

\* quantiles of an empty sample: the block raises
HandleSortQuantilesFail ==
    /\ pc = "start" /\ node.kind = "Sort"
    /\ \E sampled \in SampledPartitions(prev_part, SAMPLES_PER_PARTITION) :
         /\ MergedSamples(sampled, node.sort_by) = <<>>
         /\ node.num_partitions > 1
    /\ err' = "DataError"
    /\ pc' = "error"
    /\ UNCHANGED <<node, prev_part, output, shuffleVars, localVars>>

----------------------------------------------------------------------------
(* LogicalGlobalOpRunner._handle_coalesce *)

\* mutant of HandleCoalesce: num_input_partitions is the target count
HandleCoalesceTargetCount ==
    /\ pc = "start" /\ node.kind = "Coalesce"
    /\ map_args' = [num_input_partitions |-> node.num_partitions]
    /\ pc' = "map"
    /\ UNCHANGED <<node, prev_part, output, err,
                   reduce_args, map_results, reduce_inputs, reduced_results, localVars>>

HandleCoalesce ==
    /\ pc = "start" /\ node.kind = "Coalesce"
    /\ map_args' = [num_input_partitions |-> NumPartitions(prev_part)]
    /\ pc' = "map"
    /\ UNCHANGED <<node, prev_part, output, err,
                   reduce_args, map_results, reduce_inputs, reduced_results, localVars>>

----------------------------------------------------------------------------
(* LogicalPartitionOpRunner: the handlers.  A handler gives a result        *)
(* [ok, val, err]: the partition it returns, or the exception it raises.    *)

Ok(val) == [ok |-> TRUE, val |-> val, err |-> ""]
Raise(e) == [ok |-> FALSE, val |-> <<>>, err |-> e]

\* Python list[start:end] with 0 <= start <= end: the elements at the 0-based
\* positions start .. end-1 that exist
PySlice(list, start, end) ==
    SubSeq(list, start + 1, IF end <= Len(list) THEN end ELSE Len(list))

\* mutant of HandleScanInMemory: the last partition takes the rows that are
\* left
HandleScanInMemoryLastTakesRest(source_info, pid) ==
    LET table_len == Len(source_info.data)
        partition_size == table_len \div source_info.num_partitions
        start == partition_size * pid
        end == IF pid = source_info.num_partitions - 1 THEN table_len
               ELSE partition_size * (pid + 1)
    IN  Ok(PySlice(source_info.data, start, end))

\* _handle_scan, scan type IN_MEMORY.  data is one column: every column of
\* the source has the same length and is sliced with the same start and end.
HandleScanInMemory(source_info, pid) ==
    LET table_len == Len(source_info.data)
        partition_size == table_len \div source_info.num_partitions
        start == partition_size * pid
        end == partition_size * (pid + 1)
    IN  Ok(PySlice(source_info.data, start, end))

\* _handle_scan, scan types CSV and PARQUET: the rows of the pid-th file; a
\* CSV file with headers loses its first line
HandleScanFile(source_info, pid) ==
    IF pid >= Len(source_info.filepaths) THEN Raise("IndexError")
    ELSE LET lines == source_info.filepaths[pid + 1] IN
         IF source_info.scan_type = "CSV" /\ source_info.has_headers
           THEN Ok(Tail(lines))
         ELSE Ok(lines)

HandleScan(source_info, pid) ==
    IF source_info.scan_type = "IN_MEMORY" THEN HandleScanInMemory(source_info, pid)
    ELSE IF source_info.scan_type \in {"CSV", "PARQUET"}
      THEN HandleScanFile(source_info, pid)
    ELSE Raise("NotImplementedError")

\* eval_expression_list(proj._projection): the expression applied to each row
EvalExpressionList(part) == [p \in 1..Len(part) |-> part[p] + 10]

\* the predicate "even" of the Filter nodes over integer rows
Predicate(row) == row % 2 = 0

\* the mask value a predicate evaluates to on a row: "true", "false" or
\* "null".  The predicate "even" tests an integer row; any other predicate
\* names a boolean column of the row, which may hold nulls.
EvalPredicate(predicate, row) ==
    IF predicate = "even" THEN (IF Predicate(row) THEN "true" ELSE "false")
    ELSE row[predicate]

\* vPartition.filter(predicate): the rows whose mask is true, in order; a
\* null in the mask counts as false
FilterRows(part, predicate) ==
    SelectPos(part, {p \in 1..Len(part) : EvalPredicate(predicate, part[p]) = "true"},
              Len(part))

\* vPartition.agg(aggs, group_by) with no group_by: one row, the sum
Agg(part) == <<SeqSum(part)>>

RECURSIVE JoinRows(_, _)
\* vPartition.join(right, how="inner") on the row value: each left row, in
\* order, once per equal right row
JoinRows(left, right) ==
    IF left = <<>> THEN <<>>
    ELSE [j \in 1..Count_(right, left[1]) |-> left[1]] \o JoinRows(Tail(left), right)

HandleProjection(registry, nd) ==
    LET child_id == nd.children[1] IN
    IF child_id \notin DOMAIN registry THEN Raise("KeyError")
    ELSE Ok(EvalExpressionList(registry[child_id]))

\* mutant of HandleFilter: the child partition is returned as it is
HandleFilterUnfiltered(registry, nd) ==
    LET child_id == nd.children[1] IN
    IF child_id \notin DOMAIN registry THEN Raise("KeyError")
    ELSE Ok(registry[child_id])

HandleFilter(registry, nd) ==
    LET child_id == nd.children[1] IN
    IF child_id \notin DOMAIN registry THEN Raise("KeyError")
    ELSE Ok(FilterRows(registry[child_id], nd.predicate))

\* mutant of HandleLocalLimit: head is given num + 1
HandleLocalLimitOneMore(registry, nd) ==
    LET child_id == nd.children[1] IN
    IF child_id \notin DOMAIN registry THEN Raise("KeyError")
    ELSE Ok(Head_(registry[child_id], nd.num + 1))

HandleLocalLimit(registry, nd) ==
    LET child_id == nd.children[1] IN
    IF child_id \notin DOMAIN registry THEN Raise("KeyError")
    ELSE Ok(Head_(registry[child_id], nd.num))

HandleLocalAggregate(registry, nd) ==
    LET child_id == nd.children[1] IN
    IF child_id \notin DOMAIN registry THEN Raise("KeyError")
    ELSE Ok(Agg(registry[child_id]))

HandleJoin(registry, nd) ==
    LET left_id == nd.children[1]
        right_id == nd.children[2]
    IN  IF left_id \notin DOMAIN registry \/ right_id \notin DOMAIN registry
          THEN Raise("KeyError")
        ELSE Ok(JoinRows(registry[left_id], registry[right_id]))

\* LogicalPartitionOpRunner.run_single_node
RunSingleNode(registry, nd, pid) ==
    IF nd.kind = "Scan" THEN HandleScan(source, pid)
    ELSE IF nd.kind = "Projection" THEN HandleProjection(registry, nd)
    ELSE IF nd.kind = "Filter" THEN HandleFilter(registry, nd)
    ELSE IF nd.kind = "LocalLimit" THEN HandleLocalLimit(registry, nd)
    ELSE IF nd.kind = "LocalAggregate" THEN HandleLocalAggregate(registry, nd)
    ELSE IF nd.kind = "Join" THEN HandleJoin(registry, nd)
    ELSE Raise("NotImplementedError")

----------------------------------------------------------------------------
(* LogicalPartitionOpRunner.run_node_list *)

\* part_set[key] = val
SetItem(registry, key, val) ==
    [k \in DOMAIN registry \cup {key} |-> IF k = key THEN val ELSE registry[k]]

\* del part_set[key], the key being there
DelItem(registry, key) == [k \in DOMAIN registry \ {key} |-> registry[k]]

\* mutant of DelChildren: only the first child is released
DelFirstChildOnly(registry, children) ==
    IF children = <<>> THEN [ok |-> TRUE, registry |-> registry]
    ELSE IF children[1] \notin DOMAIN registry
      THEN [ok |-> FALSE, registry |-> registry]
    ELSE [ok |-> TRUE, registry |-> [k \in DOMAIN registry \ {children[1]} |-> registry[k]]]

RECURSIVE DelChildren(_, _)
\* for child in node._children(): del part_set[child.id()]
\* gives the registry reached and whether a del raised KeyError
DelChildren(registry, children) ==
    IF children = <<>> THEN [ok |-> TRUE, registry |-> registry]
    ELSE IF children[1] \notin DOMAIN registry
      THEN [ok |-> FALSE, registry |-> registry]
    ELSE DelChildren(DelItem(registry, children[1]), Tail(children))

this_node == nodes[idx + 1]
this_result == RunSingleNode(part_set, this_node, partition_id)
this_deleted ==
    DelChildren(SetItem(part_set, this_node.id, this_result.val), this_node.children)

\* mutant of CallersMapping: part_set = inputs, the loop works on the
\* caller's dict itself
CallersMappingAliased(registry) == registry

\* part_set = inputs.copy(): the registry is a dict of its own, so what the
\* loop stores in it or deletes from it does not reach the caller's dict;
\* the result is the caller's dict after the registry became `registry`
CallersMapping(registry) == inputs

\* one iteration of the loop: the node runs, its output is bound, its
\* children are released
RunNode ==
    /\ runner = "LogicalPartitionOpRunner"
    /\ rpc = "loop" /\ idx < Len(nodes)
    /\ this_result.ok /\ this_deleted.ok
    /\ node_output' = this_result.val
    /\ part_set' = this_deleted.registry
    /\ inputs' = CallersMapping(part_set')
    /\ idx' = idx + 1
    /\ UNCHANGED <<globalVars, shuffleVars, tableVars, scanVars,
                   runner, nodes, partition_id, rpc, rerr, ret>>

\* mutant of RunNodeHandlerRaises: the exception is caught and the output of
\* the node before is handed back
RunNodeHandlerRaisesPartial ==
    /\ runner = "LogicalPartitionOpRunner"
    /\ rpc = "loop" /\ idx < Len(nodes)
    /\ ~this_result.ok
    /\ rerr' = this_result.err
    /\ rpc' = "error"
    /\ ret' = node_output
    /\ UNCHANGED <<globalVars, shuffleVars, tableVars, scanVars,
                   runner, inputs, nodes, partition_id, part_set, idx, node_output>>

\* run_single_node raises: the exception leaves run_node_list
RunNodeHandlerRaises ==
    /\ runner = "LogicalPartitionOpRunner"
    /\ rpc = "loop" /\ idx < Len(nodes)
    /\ ~this_result.ok
    /\ rerr' = this_result.err
    /\ rpc' = "error"
    /\ UNCHANGED <<globalVars, shuffleVars, tableVars, scanVars,
                   runner, inputs, nodes, partition_id, part_set, idx, node_output, ret>>

\* the node ran and its output is bound, then a del raises KeyError
RunNodeDelRaises ==
    /\ runner = "LogicalPartitionOpRunner"
    /\ rpc = "loop" /\ idx < Len(nodes)
    /\ this_result.ok /\ ~this_deleted.ok
    /\ node_output' = this_result.val
    /\ part_set' = this_deleted.registry
    /\ inputs' = CallersMapping(part_set')
    /\ rerr' = "KeyError"
    /\ rpc' = "error"
    /\ UNCHANGED <<globalVars, shuffleVars, tableVars, scanVars,
                   runner, nodes, partition_id, idx, ret>>

\* return output, after at least one iteration
RunReturn ==
    /\ runner = "LogicalPartitionOpRunner"
    /\ rpc = "loop" /\ idx = Len(nodes) /\ idx > 0
    /\ ret' = node_output
    /\ rpc' = "done"
    /\ UNCHANGED <<globalVars, shuffleVars, tableVars, scanVars,
                   runner, inputs, nodes, partition_id, part_set, idx, node_output, rerr>>

\* return output with an empty list: output was never assigned
RunReturnUnbound ==
    /\ runner = "LogicalPartitionOpRunner"
    /\ rpc = "loop" /\ idx = Len(nodes) /\ idx = 0
    /\ rerr' = "UnboundLocalError"
    /\ rpc' = "error"
    /\ UNCHANGED <<globalVars, shuffleVars, tableVars, scanVars,
                   runner, inputs, nodes, partition_id, part_set, idx, node_output, ret>>

\* _handle_scan called for one more partition id of the source
ScanPartition ==
    /\ rpc = "scan"
    /\ \E pid \in (0..(source.num_partitions - 1)) \ DOMAIN scanned :
          scanned' = SetItem(scanned, pid, HandleScan(source, pid))
    /\ UNCHANGED <<globalVars, shuffleVars, tableVars, source, runVars>>

----------------------------------------------------------------------------
(* LogicalGlobalOpRunner.run_node_list and run_single_node.  The handler of *)
(* a node runs between GlobalRunSingleNode and GlobalRunNodeDone, or ends   *)
(* in GlobalRunHandlerRaises.                                               *)

\* the node kinds run_single_node of the global runner dispatches on
GlobalKinds == {"GlobalLimit", "Repartition", "Sort", "Coalesce"}

\* run_single_node enters the handler of the node: the handler reads
\* inputs[child_id] of the registry and works with a fresh shuffle op
GlobalRunSingleNode ==
    /\ runner = "LogicalGlobalOpRunner"
    /\ rpc = "loop" /\ pc = "idle" /\ idx < Len(nodes)
    /\ this_node.kind \in GlobalKinds
    /\ this_node.children[1] \in DOMAIN part_set
    /\ node' = this_node
    /\ prev_part' = part_set[this_node.children[1]]
    /\ pc' = "start"
    /\ output' = <<>>
    /\ err' = ""
    /\ map_args' = <<>>
    /\ reduce_args' = <<>>
    /\ map_results' = <<>>
    /\ reduce_inputs' = <<>>
    /\ reduced_results' = <<>>
    /\ UNCHANGED localVars

\* else: raise NotImplementedError
GlobalRunNotImplemented ==
    /\ runner = "LogicalGlobalOpRunner"
    /\ rpc = "loop" /\ pc = "idle" /\ idx < Len(nodes)
    /\ this_node.kind \notin GlobalKinds
    /\ rerr' = "NotImplementedError"
    /\ rpc' = "error"
    /\ UNCHANGED <<globalVars, shuffleVars, tableVars, scanVars,
                   runner, inputs, nodes, partition_id, part_set, idx, node_output, ret>>

\* prev_part = inputs[child_id] of a handler raises KeyError
GlobalRunMissingChild ==
    /\ runner = "LogicalGlobalOpRunner"
    /\ rpc = "loop" /\ pc = "idle" /\ idx < Len(nodes)
    /\ this_node.kind \in GlobalKinds
    /\ this_node.children[1] \notin DOMAIN part_set
    /\ rerr' = "KeyError"
    /\ rpc' = "error"
    /\ UNCHANGED <<globalVars, shuffleVars, tableVars, scanVars,
                   runner, inputs, nodes, partition_id, part_set, idx, node_output, ret>>

\* the handler returned: the output is bound and the children are released
\* (a del that raises KeyError ends the run)
GlobalRunNodeDone ==
    /\ runner = "LogicalGlobalOpRunner"
    /\ rpc = "loop" /\ pc = "done"
    /\ LET deleted == DelChildren(SetItem(part_set, node.id, output), node.children)
       IN  /\ node_output' = output
           /\ part_set' = deleted.registry
           /\ inputs' = CallersMapping(part_set')
           /\ idx' = IF deleted.ok THEN idx + 1 ELSE idx
           /\ rpc' = IF deleted.ok THEN "loop" ELSE "error"
           /\ rerr' = IF deleted.ok THEN rerr ELSE "KeyError"
    /\ pc' = "idle"
    /\ UNCHANGED <<node, prev_part, output, err, shuffleVars, tableVars, scanVars,
                   runner, nodes, partition_id, ret>>

\* the handler raised: the exception leaves run_node_list
GlobalRunHandlerRaises ==
    /\ runner = "LogicalGlobalOpRunner"
    /\ rpc = "loop" /\ pc = "error"
    /\ rerr' = err
    /\ rpc' = "error"
    /\ UNCHANGED <<globalVars, shuffleVars, tableVars, scanVars,
                   runner, inputs, nodes, partition_id, part_set, idx, node_output, ret>>

\* return output, after at least one iteration
GlobalRunReturn ==
    /\ runner = "LogicalGlobalOpRunner"
    /\ rpc = "loop" /\ pc = "idle" /\ idx = Len(nodes) /\ idx > 0
    /\ ret' = node_output
    /\ rpc' = "done"
    /\ UNCHANGED <<globalVars, shuffleVars, tableVars, scanVars,
                   runner, inputs, nodes, partition_id, part_set, idx, node_output, rerr>>

\* return output with an empty list: output was never assigned
GlobalRunReturnUnbound ==
    /\ runner = "LogicalGlobalOpRunner"
    /\ rpc = "loop" /\ pc = "idle" /\ idx = Len(nodes) /\ idx = 0
    /\ rerr' = "UnboundLocalError"
    /\ rpc' = "error"
    /\ UNCHANGED <<globalVars, shuffleVars, tableVars, scanVars,
                   runner, inputs, nodes, partition_id, part_set, idx, node_output, ret>>

----------------------------------------------------------------------------
(* Table.explode.  A table is its column names in order and its rows; a     *)
(* list cell is [isnull, items]; a cell of an exploded column of the result *)
(* is <<v>> for the element v and <<>> for null.                            *)

\* the length of a list cell, a null list counting as empty
ListLen(cell) == IF cell.isnull THEN 0 ELSE Len(cell.items)

\* mutant of ExplodeRow: a null or empty list gives no row
ExplodeRowDropsEmpty(row, cols) ==
    LET count == ListLen(row[cols[1]])
    IN  [j \in 1..count |->
            [c \in DOMAIN row |->
                IF c \in {cols[i] : i \in 1..Len(cols)}
                  THEN (IF j <= ListLen(row[c]) THEN <<row[c].items[j]>> ELSE <<>>)
                ELSE row[c]]]

\* the rows one row explodes to: one per element of its list, one with null
\* when the list is null or empty; the other columns repeat
ExplodeRow(row, cols) ==
    LET n == ListLen(row[cols[1]])
        count == IF n = 0 THEN 1 ELSE n
    IN  [j \in 1..count |->
            [c \in DOMAIN row |->
                IF c \in {cols[i] : i \in 1..Len(cols)}
                  THEN (IF j <= ListLen(row[c]) THEN <<row[c].items[j]>> ELSE <<>>)
                ELSE row[c]]]

\* mutant of Explode: the list lengths are not compared
ExplodeUnchecked(tbl, cols) ==
    Ok([columns |-> tbl.columns,
        rows |-> Flatten([r \in 1..Len(tbl.rows) |-> ExplodeRow(tbl.rows[r], cols)])])

\* Table.explode(cols): ValueError when the lists of a row differ in length
\* across the exploded columns, else the rows exploded in order
Explode(tbl, cols) ==
    IF \E r \in 1..Len(tbl.rows), i \in 1..Len(cols) :
           ListLen(tbl.rows[r][cols[i]]) # ListLen(tbl.rows[r][cols[1]])
      THEN Raise("ValueError")
    ELSE Ok([columns |-> tbl.columns,
             rows |-> Flatten([r \in 1..Len(tbl.rows) |-> ExplodeRow(tbl.rows[r], cols)])])

\* table.explode([...]) is called
ExplodeTable ==
    /\ xpc = "call"
    /\ LET res == Explode(table, to_explode)
       IN  /\ exploded' = res.val
           /\ xerr' = res.err
           /\ xpc' = IF res.ok THEN "done" ELSE "error"
    /\ UNCHANGED <<globalVars, shuffleVars, scanVars, runVars, table, to_explode>>

----------------------------------------------------------------------------
(* Inputs. *)

\* The PartitionSet with partition lengths L (a function over 0..n-1) whose
\* rows are numbered 0, 1, 2, ... in partition-id order.
NumberedPartitionSet(L, n) ==
    [i \in 0..(n - 1) |-> [j \in 1..L[i] |-> SumTo(L, i) + j - 1]]

NumberedPartitionSets ==
    UNION {{NumberedPartitionSet(L, n) : L \in [0..(n - 1) -> 0..MaxLen]}
           : n \in 0..MaxParts}

\* the partition-local runner is not running
NoLocal ==
    /\ source = <<>>
    /\ scanned = <<>>
    /\ runner = ""
    /\ inputs = <<>>
    /\ nodes = <<>>
    /\ partition_id = 0
    /\ part_set = <<>>
    /\ idx = 0
    /\ node_output = <<>>
    /\ rpc = "idle"
    /\ rerr = ""
    /\ ret = <<>>

\* Table.explode is not running
NoTable ==
    /\ table = <<>>
    /\ to_explode = <<>>
    /\ exploded = <<>>
    /\ xpc = "idle"
    /\ xerr = ""

NoShuffle ==
    /\ NoLocal
    /\ NoTable
    /\ map_args = <<>>
    /\ reduce_args = <<>>
    /\ map_results = <<>>
    /\ reduce_inputs = <<>>
    /\ reduced_results = <<>>

InitLimit ==
    /\ prev_part \in NumberedPartitionSets
    /\ \E num \in 0..MaxNum : node = [kind |-> "GlobalLimit", num |-> num]
    /\ pc = "start"
    /\ output = <<>>
    /\ err = ""
    /\ NoShuffle

NextLimit == GlobalLimitUnchanged \/ GlobalLimitAssertFails \/ GlobalLimitCut

SpecLimit == InitLimit /\ [][NextLimit]_vars

\* A shuffle op with an arbitrary map_fn, run on n one-row partitions.
InitShuffle ==
    /\ \E n \in 0..MaxSources :
           prev_part = NumberedPartitionSet([i \in 0..(n - 1) |-> 1], n)
    /\ \E m \in 0..MaxTargets :
           node = [kind |-> "Shuffle", num_partitions |-> m]
    /\ pc = "map"
    /\ output = <<>>
    /\ err = ""
    /\ NoShuffle

SpecShuffle == InitShuffle /\ [][ShuffleRun]_vars

\* Coalesce(m) of a PartitionSet of n >= m >= 1 partitions.
InitCoalesce ==
    /\ prev_part \in NumberedPartitionSets
    /\ \E m \in 1..MaxNumPartitions :
           /\ m <= NumPartitions(prev_part)
           /\ node = [kind |-> "Coalesce", num_partitions |-> m]
    /\ pc = "start"
    /\ output = <<>>
    /\ err = ""
    /\ NoShuffle

NextCoalesce == HandleCoalesce \/ ShuffleRun

SpecCoalesce == InitCoalesce /\ [][NextCoalesce]_vars

\* The inputs of the operators that read the data: a PartitionSet of
\* numbered rows and the expression that gives each row its key.
KeyedInputsOf(n) ==
    UNION {{[pset |-> NumberedPartitionSet(L, n), expr |-> e] :
              e \in [0..(SumTo(L, n) - 1) -> 1..MaxKey]}
           : L \in {K \in [0..(n - 1) -> 0..MaxKeyedRows] :
                       SumTo(K, n) <= MaxKeyedRows}}

KeyedInputs == UNION {KeyedInputsOf(n) : n \in 0..MaxKeyedParts}

InitRepartition ==
    /\ \E inp \in KeyedInputs, m \in 1..MaxNumPartitions,
          scheme \in {"RANDOM", "HASH", "RANGE"} :
           /\ scheme # "HASH" => \A r \in DOMAIN inp.expr : inp.expr[r] = 1
           /\ prev_part = inp.pset
           /\ node = [kind |-> "Repartition", scheme |-> scheme,
                      num_partitions |-> m, partition_by |-> inp.expr]
    /\ pc = "start"
    /\ output = <<>>
    /\ err = ""
    /\ NoShuffle

NextRepartition ==
    \/ HandleRepartitionRandom
    \/ HandleRepartitionHash
    \/ HandleRepartitionNotImplemented
    \/ ShuffleRun

SpecRepartition == InitRepartition /\ [][NextRepartition]_vars

InitSort ==
    /\ \E inp \in KeyedInputs, m \in 1..MaxNumPartitions, desc \in BOOLEAN :
           /\ prev_part = inp.pset
           /\ node = [kind |-> "Sort", num_partitions |-> m,
                      sort_by |-> inp.expr, desc |-> desc]
    /\ pc = "start"
    /\ output = <<>>
    /\ err = ""
    /\ NoShuffle

NextSort == HandleSort \/ HandleSortQuantilesFail \/ ShuffleRun

SpecSort == InitSort /\ [][NextSort]_vars

\* the global runner and the shuffle kernel are not running
NoGlobal ==
    /\ node = <<>>
    /\ prev_part = <<>>
    /\ pc = "idle"
    /\ output = <<>>
    /\ err = ""
    /\ map_args = <<>>
    /\ reduce_args = <<>>
    /\ map_results = <<>>
    /\ reduce_inputs = <<>>
    /\ reduced_results = <<>>

NoRun ==
    /\ runner = ""
    /\ inputs = <<>>
    /\ nodes = <<>>
    /\ partition_id = 0
    /\ part_set = <<>>
    /\ idx = 0
    /\ node_output = <<>>
    /\ rerr = ""
    /\ ret = <<>>

\* the rows 0 .. n-1
Numbered(n) == [j \in 1..n |-> j - 1]

\* The sources of a scan: an in-memory table of N rows declared with np
\* partitions; np CSV or Parquet files of two rows each (the CSV files with
\* or without a header line); a source of a scan type the runner does not
\* know.
InMemorySources ==
    {[scan_type |-> "IN_MEMORY", data |-> Numbered(N), num_partitions |-> np] :
        N \in 0..MaxTableLen, np \in 1..MaxScanPartitions}

FileSources ==
    {[scan_type |-> "CSV", has_headers |-> h, num_partitions |-> np,
      filepaths |-> [f \in 1..np |->
                       (IF h THEN <<-1>> ELSE <<>>) \o <<10 * f, 10 * f + 1>>]] :
        h \in BOOLEAN, np \in 1..MaxScanPartitions}
    \cup
    {[scan_type |-> "PARQUET", num_partitions |-> np,
      filepaths |-> [f \in 1..np |-> <<10 * f, 10 * f + 1>>]] :
        np \in 1..MaxScanPartitions}

OtherSources == {[scan_type |-> "OTHER", num_partitions |-> 1]}

InitScan ==
    /\ NoGlobal /\ NoRun /\ NoTable
    /\ source \in InMemorySources \cup FileSources \cup OtherSources
    /\ scanned = <<>>
    /\ rpc = "scan"

SpecScan == InitScan /\ [][ScanPartition]_vars

\* The node lists handed to run_node_list: the nodes have the ids 1, 2, ...
\* in list order, and the children of a node are among the caller's inputs
\* (id 0) and the nodes before it.
NodesAt(j) ==
    {[id |-> j, kind |-> "Scan", children |-> <<>>],
     [id |-> j, kind |-> "Sort", children |-> <<0>>]}
    \cup {[id |-> j, kind |-> k, children |-> <<c>>] :
             k \in {"Projection", "LocalAggregate"}, c \in 0..(j - 1)}
    \cup {[id |-> j, kind |-> "Filter", children |-> <<c>>, predicate |-> "even"] :
             c \in 0..(j - 1)}
    \cup {[id |-> j, kind |-> "LocalLimit", children |-> <<c>>, num |-> 1] :
             c \in 0..(j - 1)}
    \cup {[id |-> j, kind |-> "Join", children |-> <<c, d>>] :
             c \in 0..(j - 1), d \in 0..(j - 1)}

RECURSIVE NodeListsOfLen(_)
NodeListsOfLen(k) ==
    IF k = 0 THEN {<<>>}
    ELSE {Append(l, nd) : l \in NodeListsOfLen(k - 1), nd \in NodesAt(k)}

InitRun ==
    /\ NoGlobal /\ NoTable
    /\ source = [scan_type |-> "IN_MEMORY", data |-> <<1, 2, 3, 4, 5, 6>>,
                 num_partitions |-> 2]
    /\ scanned = <<>>
    /\ runner = "LogicalPartitionOpRunner"
    /\ partition_id = 1
    /\ inputs = [i \in {0} |-> <<2, 3, 4, 4>>]
    /\ \E k \in 0..MaxNodes : nodes \in NodeListsOfLen(k)
    /\ part_set = inputs
    /\ idx = 0
    /\ node_output = <<>>
    /\ rpc = "loop"
    /\ rerr = ""
    /\ ret = <<>>

NextRun ==
    RunNode \/ RunNodeHandlerRaises \/ RunNodeDelRaises \/ RunReturn \/ RunReturnUnbound

SpecRun == InitRun /\ [][NextRun]_vars

\* Every global operator, and a shuffle op with an arbitrary map_fn.
InitGlobalOps ==
    InitLimit \/ InitShuffle \/ InitCoalesce \/ InitRepartition \/ InitSort

NextGlobalOps ==
    NextLimit \/ NextCoalesce \/ NextRepartition \/ NextSort

SpecGlobalOps == InitGlobalOps /\ [][NextGlobalOps]_vars

\* The caller's inputs of the runs of the global runner: three rows with the
\* keys 1, 2, 1 in two partitions, or one empty partition.
RunKeys == [r \in 0..2 |-> IF r = 1 THEN 2 ELSE 1]

GlobalRunInputs ==
    {[i \in {0} |-> NumberedPartitionSet([q \in 0..1 |-> IF q = 0 THEN 2 ELSE 1], 2)],
     [i \in {0} |-> NumberedPartitionSet([q \in {0} |-> 0], 1)]}

\* The nodes a list handed to the global runner may have at position j: a
\* global operator, or a node of a kind the runner does not handle, over the
\* caller's input (id 0) or a node before it.
GlobalNodesAt(j) ==
    {[id |-> j, kind |-> "GlobalLimit", children |-> <<c>>, num |-> k] :
        c \in 0..(j - 1), k \in 1..2}
    \cup {[id |-> j, kind |-> "Repartition", children |-> <<c>>, scheme |-> sch,
           num_partitions |-> 2, partition_by |-> RunKeys] :
             c \in 0..(j - 1), sch \in {"RANDOM", "HASH", "RANGE"}}
    \cup {[id |-> j, kind |-> "Sort", children |-> <<c>>, num_partitions |-> 2,
           sort_by |-> RunKeys, desc |-> FALSE] : c \in 0..(j - 1)}
    \cup {[id |-> j, kind |-> "Coalesce", children |-> <<c>>, num_partitions |-> 1] :
             c \in 0..(j - 1)}
    \cup {[id |-> j, kind |-> "Filter", children |-> <<c>>] : c \in 0..(j - 1)}

RECURSIVE GlobalNodeListsOfLen(_)
GlobalNodeListsOfLen(k) ==
    IF k = 0 THEN {<<>>}
    ELSE {Append(l, nd) : l \in GlobalNodeListsOfLen(k - 1), nd \in GlobalNodesAt(k)}

\* run_node_list of the global runner is called: part_set = inputs.copy()
GlobalRunCalled ==
    /\ NoGlobal /\ NoTable
    /\ source = <<>>
    /\ scanned = <<>>
    /\ runner = "LogicalGlobalOpRunner"
    /\ partition_id = 0
    /\ part_set = inputs
    /\ idx = 0
    /\ node_output = <<>>
    /\ rpc = "loop"
    /\ rerr = ""
    /\ ret = <<>>

InitGlobalRun ==
    /\ inputs \in GlobalRunInputs
    /\ \E k \in 0..MaxGlobalNodes : nodes \in GlobalNodeListsOfLen(k)
    /\ GlobalRunCalled

NextGlobalRun ==
    \/ GlobalRunSingleNode
    \/ GlobalRunNotImplemented
    \/ GlobalRunMissingChild
    \/ GlobalLimitUnchanged \/ GlobalLimitAssertFails \/ GlobalLimitCut
    \/ HandleRepartitionRandom \/ HandleRepartitionHash
    \/ HandleRepartitionNotImplemented
    \/ HandleSort \/ HandleSortQuantilesFail
    \/ HandleCoalesce
    \/ ShuffleRun
    \/ GlobalRunNodeDone
    \/ GlobalRunHandlerRaises
    \/ GlobalRunReturn
    \/ GlobalRunReturnUnbound

SpecGlobalRun == InitGlobalRun /\ [][NextGlobalRun]_vars

\* run_node_list of either runner
InitRunners == InitRun \/ InitGlobalRun

NextRunners == NextRun \/ NextGlobalRun

SpecRunners == InitRunners /\ [][NextRunners]_vars

\* The tables the local operators are run on: the rows have their position
\* as id, a boolean column flag that may hold nulls, and a column objs of
\* opaque Python objects, nested values and nulls.
MaskValues == {"true", "false", "null"}

ObjectValues == {"None", "object", "nested"}

TablesOfLen(n) ==
    {[p \in 1..n |-> [id |-> p - 1, flag |-> f[p], objs |-> o[p]]] :
        f \in [1..n -> MaskValues], o \in [1..n -> ObjectValues]}

\* One LocalLimit(k) or one Filter(flag) over the caller's table, handed to
\* the local runner.
InitLocalOps ==
    /\ NoGlobal /\ NoTable
    /\ source = <<>>
    /\ scanned = <<>>
    /\ runner = "LogicalPartitionOpRunner"
    /\ partition_id = 0
    /\ \E n \in 0..MaxLen : \E tbl \in TablesOfLen(n) : inputs = [i \in {0} |-> tbl]
    /\ nodes \in
          {<<[id |-> 1, kind |-> "LocalLimit", children |-> <<0>>, num |-> k]>> :
               k \in 0..MaxNum}
          \cup {<<[id |-> 1, kind |-> "Filter", children |-> <<0>>, predicate |-> "flag"]>>}
    /\ part_set = inputs
    /\ idx = 0
    /\ node_output = <<>>
    /\ rpc = "loop"
    /\ rerr = ""
    /\ ret = <<>>

NextLocalOps == RunNode \/ RunReturn

SpecLocalOps == InitLocalOps /\ [][NextLocalOps]_vars

\* The list cell of n elements of a column at row r, or the null list for
\* n = -1; the elements tell the column, the row and the position.
ListCell(base, r, n) ==
    IF n = -1 THEN [isnull |-> TRUE, items |-> <<>>]
    ELSE [isnull |-> FALSE, items |-> [j \in 1..n |-> base + 10 * r + j]]

\* the rows of the tables with n rows: two list columns and a sidecar
ExplodeRowsOfLen(n) ==
    {[r \in 1..n |-> [nested |-> ListCell(0, r, a[r]),
                      nested2 |-> ListCell(100, r, b[r]),
                      sidecar |-> r]] :
        a \in [1..n -> -1..MaxListLen], b \in [1..n -> -1..MaxListLen]}

InitExplode ==
    /\ NoGlobal /\ NoLocal
    /\ \E n \in 0..MaxTableRows : \E rows \in ExplodeRowsOfLen(n) :
       \E order \in {<<"nested", "nested2", "sidecar">>, <<"sidecar", "nested", "nested2">>} :
          table = [columns |-> order, rows |-> rows]
    /\ to_explode \in {<<"nested">>, <<"nested", "nested2">>}
    /\ exploded = <<>>
    /\ xpc = "call"
    /\ xerr = ""

SpecExplode == InitExplode /\ [][ExplodeTable]_vars

\* Two HASH repartitions with the same keys and the same target count, the
\* second over the output of the first, handed to the global runner.
InitRepartitionTwice ==
    /\ \E inp \in KeyedInputs, m \in 1..MaxNumPartitions :
          /\ inputs = [i \in {0} |-> inp.pset]
          /\ nodes = [j \in 1..2 |->
                        [id |-> j, kind |-> "Repartition", children |-> <<j - 1>>,
                         scheme |-> "HASH", num_partitions |-> m,
                         partition_by |-> inp.expr]]
    /\ GlobalRunCalled

NextRepartitionTwice ==
    \/ GlobalRunSingleNode
    \/ HandleRepartitionHash
    \/ ShuffleRun
    \/ GlobalRunNodeDone
    \/ GlobalRunReturn

SpecRepartitionTwice == InitRepartitionTwice /\ [][NextRepartitionTwice]_vars

----------------------------------------------------------------------------
(* Vocabulary of the properties. *)

Min(a, b) == IF a <= b THEN a ELSE b

Range(s) == {s[p] : p \in 1..Len(s)}

Count(s, r) == Cardinality({p \in 1..Len(s) : s[p] = r})

\* a and b hold the same rows, each as many times
SameRows(a, b) ==
    /\ Len(a) = Len(b)
    /\ \A r \in Range(a) \cup Range(b) : Count(a, r) = Count(b, r)

\* the j-th smallest element of a finite set of numbers, j in 1..|S|
NthSmallest(S, j) == CHOOSE x \in S : Cardinality({y \in S : y < x}) = j - 1

\* the elements of S in ascending order
Ascending(S) == [j \in 1..Cardinality(S) |-> NthSmallest(S, j)]

Returned == pc = "done"

----------------------------------------------------------------------------
(* GlobalLimit *)

\* C1: GlobalLimit(k) returns, for every input and every k >= 0, a partition
\* set of min(k, total) rows with as many partitions as its input.
C1_GlobalLimitRowTotal ==
    (node.kind = "GlobalLimit" /\ pc # "start") =>
        /\ Returned
        /\ TotalRows(output) = Min(node.num, TotalRows(prev_part))
        /\ NumPartitions(output) = NumPartitions(prev_part)

\* the failing input of C1 and C2: one partition of 3 rows, limit 1
C1_CutInPartitionZero ==
    /\ node.kind = "GlobalLimit" /\ node.num = 1
    /\ prev_part = NumberedPartitionSet([i \in {0} |-> 3], 1)
    /\ pc = "error" /\ err = "AssertionError"

\* the cumulative sum C[i] of the claim, with C[-1] = 0
ClaimC(i) == IF i < 0 THEN 0 ELSE SumTo([p \in DOMAIN prev_part |-> Len(prev_part[p])], i + 1)
\* j: the smallest index whose cumulative sum exceeds k
ClaimJ == CHOOSE j \in DOMAIN prev_part :
              /\ ClaimC(j) > node.num
              /\ \A i \in DOMAIN prev_part : ClaimC(i) > node.num => j <= i
\* r = k - C[j-1]
ClaimR == node.num - ClaimC(ClaimJ - 1)

ClaimLimitOutput ==
    IF TotalRows(prev_part) <= node.num THEN prev_part
    ELSE [i \in DOMAIN prev_part |->
            IF i < ClaimJ THEN prev_part[i]
            ELSE IF i = ClaimJ THEN SubSeq(prev_part[i], 1, ClaimR)
            ELSE <<>>]

\* C2: GlobalLimit(k) returns the input unchanged when it has at most k rows
\* and otherwise the partitions before the cut unchanged, the first r rows of
\* the cut partition and empty partitions after it; the output concatenated
\* is the first min(k, total) rows of the input concatenated.
C2_GlobalLimitPrefixShape ==
    (node.kind = "GlobalLimit" /\ pc # "start") =>
        /\ Returned
        /\ output = ClaimLimitOutput
        /\ ConcatAll(output) =
             SubSeq(ConcatAll(prev_part), 1, Min(node.num, TotalRows(prev_part)))

\* C19: whenever the input has more than k rows, the remainder computed by
\* _handle_global_limit is between 0 and the length of the cut partition,
\* and `assert remainder >= 0` does not fail, the cut index 0 included.
C19_LimitAssertionHolds ==
    (node.kind = "GlobalLimit" /\ pc # "start" /\ total_size > node.num) =>
        /\ remainder >= 0
        /\ remainder <= Len(prev_part[where_to_cut_idx])
        /\ err # "AssertionError"

\* the cut falls in partition 0 of two partitions of 2 and 1 rows: the count
\* before the cut is read as the total, the remainder is negative and the
\* assertion has failed
C19_NegativeRemainder ==
    /\ node.kind = "GlobalLimit" /\ node.num = 1
    /\ prev_part = NumberedPartitionSet([i \in 0..1 |-> 2 - i], 2)
    /\ where_to_cut_idx = 0
    /\ count_so_far = 3
    /\ remainder = -2
    /\ pc = "error" /\ err = "AssertionError"

----------------------------------------------------------------------------
(* Shuffle kernel *)

\* the sources whose map result has an entry for target t
Contributors(t) ==
    {i \in 0..(source_partitions - 1) :
        i < Len(map_results) /\ t \in DOMAIN map_results[i + 1]}

\* C5: the list handed to reduce_fn for target t is the sub-partitions
\* M_i[t] of exactly the sources i whose map result contains t, in strictly
\* ascending i, each once.
C5_ReduceOrdering ==
    \A t \in 0..(Len(reduce_inputs) - 1) :
        LET handed == reduce_inputs[t + 1]
            srcs == Ascending(Contributors(t))
        IN  /\ Len(handed) = Len(srcs)
            /\ \A j \in 1..Len(srcs) : handed[j] = map_results[srcs[j] + 1][t]

\* a target was reduced from sources 0 and 2 while source 1 emitted nothing
\* for it
C5_Witness ==
    /\ node.kind = "Shuffle"
    /\ \E t \in 0..(Len(reduce_inputs) - 1) :
          /\ Contributors(t) = {0, 2}
          /\ reduce_inputs[t + 1] = << << <<0, t>> >>, << <<2, t>> >> >>

\* the applications of map_fn and reduce_fn so far are those of the claim:
\* the i-th map application was to source i, the t-th reduce application
\* was for target t, and no reduce application came before the last map
ShufflePhasesSoFar ==
    /\ Len(map_results) <= source_partitions
    /\ Len(reduced_results) <= node.num_partitions
    /\ Len(reduce_inputs) = Len(reduced_results)
    /\ \A i \in 0..(Len(map_results) - 1) :
          \A t \in DOMAIN map_results[i + 1] : map_results[i + 1][t] = << <<i, t>> >>
    /\ \A t \in 0..(Len(reduce_inputs) - 1) :
          /\ \A j \in 1..Len(reduce_inputs[t + 1]) :
                \E i \in 0..(source_partitions - 1) :
                    reduce_inputs[t + 1][j] = << <<i, t>> >>
          /\ Contributors(t) = {} => reduce_inputs[t + 1] = <<>>
    /\ reduced_results # <<>> => Len(map_results) = source_partitions
    /\ Returned =>
          /\ Len(map_results) = source_partitions
          /\ Len(reduced_results) = node.num_partitions

\* a step applies map_fn to the next source while no target is reduced, or
\* reduce_fn to the next target when every source is mapped
ShufflePhaseStep ==
    /\ map_results' # map_results =>
          /\ reduced_results = <<>> /\ reduced_results' = <<>>
          /\ Len(map_results') = Len(map_results) + 1
          /\ SubSeq(map_results', 1, Len(map_results)) = map_results
    /\ reduced_results' # reduced_results =>
          /\ map_results' = map_results
          /\ Len(map_results) = source_partitions
          /\ Len(reduced_results') = Len(reduced_results) + 1
          /\ SubSeq(reduced_results', 1, Len(reduced_results)) = reduced_results

\* C20: one call of run applies map_fn once to each source 0..n-1, then
\* reduce_fn once for each target 0..m-1 in ascending order; no reduce
\* application starts before the last map application, and a target no
\* source emitted for is reduced from the empty list.
C20_ShufflePhaseOrdering ==
    [](ShufflePhasesSoFar) /\ [][ShufflePhaseStep]_vars

\* two sources and two targets: both sources emitted for target 1 only, and
\* target 0 was reduced first, from the empty list
C20_Witness ==
    /\ Returned /\ node.kind = "Shuffle"
    /\ source_partitions = 2 /\ node.num_partitions = 2
    /\ Contributors(0) = {} /\ Contributors(1) = {0, 1}
    /\ reduce_inputs = << <<>>, << << <<0, 1>> >>, << <<1, 1>> >> >> >>
    /\ output[0] = <<>>

\* C6: every partition set a global operator returns has the ids
\* 0..num_partitions-1: the shuffle returns 0..m-1 whatever map_fn gave,
\* GlobalLimit returns the ids of its input.
C6_PartitionDensity ==
    Returned =>
        DOMAIN output =
            IF node.kind = "GlobalLimit" THEN 0..(NumPartitions(prev_part) - 1)
            ELSE 0..(node.num_partitions - 1)

\* a shuffle returned two partitions, one of them reduced from nothing
C6_Witness ==
    /\ Returned /\ node.kind = "Shuffle"
    /\ node.num_partitions = 2 /\ source_partitions >= 1
    /\ \E t \in 0..1 : reduce_inputs[t + 1] = <<>> /\ output[t] = <<>>
    /\ \E t \in 0..1 : output[t] # <<>>

----------------------------------------------------------------------------
(* Sort *)

\* the key of r1 comes before the key of r2, or equals it, in the direction
\* of the sort
InOrder(r1, r2) ==
    IF node.desc THEN node.sort_by[r1] >= node.sort_by[r2]
    ELSE node.sort_by[r1] <= node.sort_by[r2]

Ordered(rows) == \A p, q \in 1..Len(rows) : p < q => InOrder(rows[p], rows[q])

\* C7: the output of a sort holds the rows of the input, each once, every
\* partition is sorted and every key of partition t precedes or equals every
\* key of partition t+1: the output concatenated in id order is ordered.
C7_SortGloballySorted ==
    (Returned /\ node.kind = "Sort") =>
        /\ SameRows(ConcatAll(output), ConcatAll(prev_part))
        /\ \A t \in DOMAIN output : Ordered(output[t])
        /\ \A t, u \in DOMAIN output : t < u =>
              \A p \in 1..Len(output[t]), q \in 1..Len(output[u]) :
                  InOrder(output[t][p], output[u][q])
        /\ Ordered(ConcatAll(output))

\* a descending sort of an input that was not in order returned two
\* partitions with rows, rows of one input partition on both sides
C7_Witness ==
    /\ Returned /\ node.kind = "Sort" /\ node.desc
    /\ node.num_partitions = 2
    /\ ~Ordered(ConcatAll(prev_part))
    /\ output[0] # <<>> /\ output[1] # <<>>
    /\ \E i \in DOMAIN prev_part :
          /\ Range(prev_part[i]) \cap Range(output[0]) # {}
          /\ Range(prev_part[i]) \cap Range(output[1]) # {}

\* what a run of _handle_sort returns when its sampling step draws sampled:
\* the rows of each bucket of the boundaries, sorted
SortOutputWith(sampled) ==
    LET boundaries == Quantiles(MergedSamples(sampled, node.sort_by), node.num_partitions)
        rows == ConcatAll(prev_part)
    IN  [t \in 0..(node.num_partitions - 1) |->
            SortRows(SelectPos(rows,
                               {p \in 1..Len(rows) :
                                   Bucket(node.sort_by[rows[p]], boundaries, node.desc) = t},
                               Len(rows)),
                     node.sort_by, node.desc)]

\* C13: the partition set a sort returns is the one every other run on the
\* same input, expression, direction and target count returns, whatever rows
\* its sampling step draws.
C13_SortDeterministic ==
    (Returned /\ node.kind = "Sort") =>
        \A sampled \in SampledPartitions(prev_part, SAMPLES_PER_PARTITION) :
            (MergedSamples(sampled, node.sort_by) # <<>> \/ node.num_partitions = 1) =>
                output = SortOutputWith(sampled)

\* one partition with the keys 1, 2: the run that drew the row of key 1
\* returned both rows in partition 1, while a run that draws the row of key 2
\* returns one row in each partition
C13_SampleDecidesPartitions ==
    /\ Returned /\ node.kind = "Sort" /\ ~node.desc
    /\ node.num_partitions = 2
    /\ NumPartitions(prev_part) = 1 /\ Len(prev_part[0]) = 2
    /\ node.sort_by[0] = 1 /\ node.sort_by[1] = 2
    /\ map_args.boundaries = <<1>>
    /\ output = [t \in 0..1 |-> IF t = 0 THEN <<>> ELSE <<0, 1>>]
    /\ \E sampled \in SampledPartitions(prev_part, SAMPLES_PER_PARTITION) :
          SortOutputWith(sampled) = [t \in 0..1 |-> <<t>>]

----------------------------------------------------------------------------
(* Coalesce *)

\* the sources the claim assigns to target t
ClaimSources(t) ==
    {i \in DOMAIN prev_part :
        (i * node.num_partitions) \div NumPartitions(prev_part) = t}

RECURSIVE ConcatSources(_)
\* the input partitions with the ids of srcs, concatenated in that order
ConcatSources(srcs) ==
    IF srcs = <<>> THEN <<>>
    ELSE prev_part[srcs[1]] \o ConcatSources(Tail(srcs))

\* C8: Coalesce(m), m <= n, returns m partitions; partition t is the
\* concatenation in ascending source id of the sources i with
\* floor(i*m/n) = t; every target has a source; the rows and their order over
\* the whole set are kept.
C8_CoalesceContiguous ==
    (Returned /\ node.kind = "Coalesce"
        /\ node.num_partitions <= NumPartitions(prev_part)) =>
        /\ DOMAIN output = 0..(node.num_partitions - 1)
        /\ \A t \in DOMAIN output :
              /\ output[t] = ConcatSources(Ascending(ClaimSources(t)))
              /\ ClaimSources(t) # {}
        /\ TotalRows(output) = TotalRows(prev_part)
        /\ ConcatAll(output) = ConcatAll(prev_part)

\* three partitions with rows were coalesced to two
C8_Witness ==
    /\ Returned /\ node.kind = "Coalesce"
    /\ NumPartitions(prev_part) = 3 /\ node.num_partitions = 2
    /\ \A i \in DOMAIN prev_part : prev_part[i] # <<>>
    /\ output[0] = prev_part[0] \o prev_part[1]
    /\ output[1] = prev_part[2]

----------------------------------------------------------------------------
(* Repartition *)

\* C9: a RANDOM or HASH repartition to m >= 1 targets returns every input
\* row in exactly one output partition: the rows, and so the row total, are
\* those of the input.
C9_RepartitionConservesRows ==
    (Returned /\ node.kind = "Repartition") =>
        /\ SameRows(ConcatAll(output), ConcatAll(prev_part))
        /\ TotalRows(output) = TotalRows(prev_part)
        /\ \A r \in Range(ConcatAll(prev_part)) :
              Cardinality({t \in DOMAIN output : r \in Range(output[t])}) = 1

\* a hash repartition spread the rows of one input partition over two targets
C9_Witness ==
    /\ Returned /\ node.kind = "Repartition" /\ node.scheme = "HASH"
    /\ node.num_partitions = 2
    /\ NumPartitions(prev_part) = 2
    /\ output[0] # <<>> /\ output[1] # <<>>
    /\ \E i \in DOMAIN prev_part :
          /\ Range(prev_part[i]) \cap Range(output[0]) # {}
          /\ Range(prev_part[i]) \cap Range(output[1]) # {}

\* the target the claim gives the row r: hash(key tuple) mod m
ClaimTarget(r) == Hash(node.partition_by[r]) % node.num_partitions

\* the target partition that holds the row r of the output
TargetOf(r) == CHOOSE t \in DOMAIN output : r \in Range(output[t])

\* C11: a HASH repartition to m targets returns in partition t exactly the
\* input rows whose key hashes to t modulo m, so rows with equal keys are in
\* the same partition; the output is a function of the input alone, so a
\* second run gives the same assignment.
C11_HashColocatesEqualKeys ==
    (Returned /\ node.kind = "Repartition" /\ node.scheme = "HASH") =>
        LET rows == ConcatAll(prev_part) IN
        /\ \A t \in 0..(node.num_partitions - 1) :
              output[t] = SelectPos(rows, {p \in 1..Len(rows) : ClaimTarget(rows[p]) = t},
                                    Len(rows))
        /\ \A r1, r2 \in Range(rows) :
              node.partition_by[r1] = node.partition_by[r2] => TargetOf(r1) = TargetOf(r2)

\* rows with the keys 1, 2, 1 were repartitioned to two targets: the rows of
\* key 1 are together and the row of key 2 is in the other partition
C11_Witness ==
    /\ Returned /\ node.kind = "Repartition" /\ node.scheme = "HASH"
    /\ node.num_partitions = 2
    /\ NumPartitions(prev_part) = 2
    /\ node.partition_by = [r \in 0..2 |-> IF r = 1 THEN 2 ELSE 1]
    /\ \E t \in 0..1 : Range(output[t]) = {0, 2} /\ Range(output[1 - t]) = {1}

\* C12: two HASH repartitions to n targets with the same keys, one after the
\* other, return a partition set that has, partition by partition, the rows
\* of the output of the first alone (prev_part of the second node is the
\* output of the first, read from the registry).
C12_RepartitionIdempotent ==
    (runner = "LogicalGlobalOpRunner" /\ rpc = "done" /\ Len(nodes) = 2
        /\ \A j \in 1..2 : nodes[j].kind = "Repartition" /\ nodes[j].scheme = "HASH"
        /\ nodes[1].partition_by = nodes[2].partition_by
        /\ nodes[1].num_partitions = nodes[2].num_partitions
        /\ nodes[1].children = <<0>> /\ nodes[2].children = <<1>>) =>
        /\ DOMAIN ret = DOMAIN prev_part
        /\ \A t \in DOMAIN ret : SameRows(ret[t], prev_part[t])
        /\ SameRows(ConcatAll(ret), ConcatAll(inputs[0]))

\* the first repartition moved rows of both input partitions to both
\* targets, and the second returned what it was given
C12_Witness ==
    /\ runner = "LogicalGlobalOpRunner" /\ rpc = "done" /\ Len(nodes) = 2
    /\ nodes[1].scheme = "HASH" /\ nodes[2].scheme = "HASH"
    /\ nodes[2].num_partitions = 2
    /\ NumPartitions(inputs[0]) = 2
    /\ prev_part # inputs[0]
    /\ prev_part[0] # <<>> /\ prev_part[1] # <<>>
    /\ ret = prev_part

----------------------------------------------------------------------------
(* run_node_list *)

\* the ids of the nodes whose iteration has completed
RanIds == {nodes[j].id : j \in 1..idx}

\* the ids of the children of the nodes whose iteration has completed
ChildrenOfRan == UNION {Range(nodes[j].children) : j \in 1..idx}

\* the positions in the list of the nodes that have id as a child
Consumers(id) == {j \in 1..Len(nodes) : id \in Range(nodes[j].children)}

\* C3: an entry leaves the registry only after the last node of the list
\* that has it as a child has run, so every consumer of a node's output,
\* also the second of two, finds the entry and no lookup or del of a child
\* raises KeyError.
C3_ReleaseAtLastConsumer ==
    rpc \in {"loop", "done", "error"} =>
        /\ rerr # "KeyError"
        /\ \A id \in (DOMAIN inputs \cup RanIds) \ DOMAIN part_set :
              \A j \in Consumers(id) : j <= idx

\* two filters of the caller's input: the second finds the entry released
C3_SecondConsumerFails ==
    /\ Len(nodes) = 2
    /\ nodes[1].kind = "Filter" /\ nodes[1].children = <<0>>
    /\ nodes[2].kind = "Filter" /\ nodes[2].children = <<0>>
    /\ idx = 1 /\ rpc = "error" /\ rerr = "KeyError"

RECURSIVE Denote(_)
\* what the node with this id computes from the caller's inputs, read off
\* the plan: the input bound to the id, or the node's operator applied to
\* what its children compute
Denote(id) ==
    IF id \in DOMAIN inputs THEN inputs[id]
    ELSE LET nd == nodes[id] IN
         IF nd.kind = "Scan"
           THEN PySlice(source.data,
                        (Len(source.data) \div source.num_partitions) * partition_id,
                        (Len(source.data) \div source.num_partitions) * (partition_id + 1))
         ELSE IF nd.kind = "Projection" THEN EvalExpressionList(Denote(nd.children[1]))
         ELSE IF nd.kind = "Filter" THEN FilterRows(Denote(nd.children[1]), nd.predicate)
         ELSE IF nd.kind = "LocalLimit" THEN Head_(Denote(nd.children[1]), nd.num)
         ELSE IF nd.kind = "LocalAggregate" THEN Agg(Denote(nd.children[1]))
         ELSE JoinRows(Denote(nd.children[1]), Denote(nd.children[2]))

\* C4: while run_node_list of the local runner runs a non-empty list, after
\* step i the registry binds n_i.id to the output of n_i and has no entry for
\* a child of n_i; its keys are the input ids and the ids of the nodes run so
\* far, less the children of the nodes run so far; the value returned is the
\* output of the last node.
C4_RegistryLiveValues ==
    /\ rpc \in {"loop", "done"} =>
          /\ DOMAIN part_set = (DOMAIN inputs \cup RanIds) \ ChildrenOfRan
          /\ \A id \in DOMAIN part_set : part_set[id] = Denote(id)
          /\ idx >= 1 =>
                /\ nodes[idx].id \in DOMAIN part_set
                /\ part_set[nodes[idx].id] = node_output
                /\ \A c \in Range(nodes[idx].children) : c \notin DOMAIN part_set
    /\ rpc = "done" =>
          /\ idx = Len(nodes) /\ idx >= 1
          /\ ret = Denote(nodes[Len(nodes)].id)

\* a scan, a filter of the caller's input and their join ran and returned
C4_Witness ==
    /\ rpc = "done" /\ Len(nodes) = 3
    /\ nodes[1].kind = "Scan" /\ nodes[2].kind = "Filter"
    /\ nodes[3].kind = "Join" /\ nodes[3].children = <<2, 1>>
    /\ DOMAIN part_set = {3}
    /\ ret = <<4, 4>>

----------------------------------------------------------------------------
(* In-memory scan *)

\* floor(N / np) of the source
SliceLen == Len(source.data) \div source.num_partitions

\* the rows of the source that some scanned partition holds
ScannedRows == UNION {Range(scanned[p].val) : p \in DOMAIN scanned}

\* C10: scanning partition p of an in-memory source of N rows declared with
\* np partitions gives the source rows p*floor(N/np) .. (p+1)*floor(N/np)-1 in
\* source order; the partitions are pairwise disjoint and of length
\* floor(N/np); the rows in no partition are the trailing N mod np rows.
C10_ScanSlicing ==
    (rpc = "scan" /\ source.scan_type = "IN_MEMORY") =>
        /\ \A p \in DOMAIN scanned :
              /\ scanned[p].ok
              /\ scanned[p].val =
                    [j \in 1..SliceLen |-> source.data[p * SliceLen + j]]
              /\ Len(scanned[p].val) = SliceLen
        /\ \A p, q \in DOMAIN scanned :
              p # q => Range(scanned[p].val) \cap Range(scanned[q].val) = {}
        /\ DOMAIN scanned = 0..(source.num_partitions - 1) =>
              Range(source.data) \ ScannedRows =
                  {source.data[j] :
                      j \in (Len(source.data) - (Len(source.data) % source.num_partitions) + 1)
                             ..Len(source.data)}

\* the three partitions of a table of 5 rows were scanned: rows 3 and 4 are
\* in none
C10_Witness ==
    /\ rpc = "scan" /\ source.scan_type = "IN_MEMORY"
    /\ Len(source.data) = 5 /\ source.num_partitions = 3
    /\ DOMAIN scanned = {0, 1, 2}
    /\ scanned[1].val = <<1>>
    /\ Range(source.data) \ ScannedRows = {3, 4}

----------------------------------------------------------------------------
(* Failure of a node *)

\* the errors the node nd can fail with, by the runner and the kind of nd
ClaimErrors(nd) ==
    IF runner = "LogicalPartitionOpRunner"
      THEN IF nd.kind \in {"Scan", "Projection", "Filter", "LocalLimit",
                           "LocalAggregate", "Join"}
             THEN {"KeyError"}
           ELSE {"NotImplementedError"}
    ELSE IF nd.kind = "GlobalLimit" THEN {"KeyError", "AssertionError"}
    ELSE IF nd.kind = "Repartition" THEN {"KeyError", "NotImplementedError"}
    ELSE IF nd.kind = "Sort" THEN {"KeyError", "DataError"}
    ELSE IF nd.kind = "Coalesce" THEN {"KeyError"}
    ELSE {"NotImplementedError"}

\* C14: when a node of the list fails, in either runner, run_node_list ends
\* there with the error of that node: nothing is returned, no node after it
\* has run and no step follows.
C14_FailureAborts ==
    (rpc = "error" /\ nodes # <<>>) =>
        /\ idx < Len(nodes)
        /\ rerr \in ClaimErrors(nodes[idx + 1])
        /\ ret = <<>>
        /\ \A j \in (idx + 2)..Len(nodes) : nodes[j].id \notin DOMAIN part_set
        /\ ~ENABLED NextRunners

\* the first of two nodes of the global runner failed its assertion, and the
\* local runner's counterpart: a node of a kind it does not handle, after a
\* node that ran
C14_Witness ==
    /\ rpc = "error" /\ Len(nodes) >= 2
    /\ \/ /\ runner = "LogicalGlobalOpRunner"
          /\ idx = 0 /\ rerr = "AssertionError"
       \/ /\ runner = "LogicalPartitionOpRunner"
          /\ idx = 1 /\ rerr = "NotImplementedError" /\ Len(nodes) = 3

----------------------------------------------------------------------------
(* LocalLimit and Filter *)

\* C15: LocalLimit(k), k >= 0, returns the first min(k, len) rows of the
\* child partition in their order, each row with every column as it was:
\* objects, nested values and nulls alike.
C15_LocalLimitHead ==
    (rpc = "done" /\ Len(nodes) = 1 /\ nodes[1].kind = "LocalLimit") =>
        LET child == inputs[nodes[1].children[1]] IN
        /\ Len(ret) = Min(nodes[1].num, Len(child))
        /\ \A p \in 1..Len(ret) : ret[p] = child[p]

\* the first two of three rows, a null and an object among them, were kept
C15_Witness ==
    /\ rpc = "done" /\ Len(nodes) = 1 /\ nodes[1].kind = "LocalLimit"
    /\ nodes[1].num = 2
    /\ Len(inputs[0]) = 3
    /\ inputs[0][1].objs = "object" /\ inputs[0][2].objs = "None"
    /\ ret = <<inputs[0][1], inputs[0][2]>>

\* the positions of the child partition whose mask value is true
TruePositions(child, predicate) ==
    {p \in 1..Len(child) : EvalPredicate(predicate, child[p]) = "true"}

\* C16: Filter returns the rows of the child partition whose predicate value
\* is true, in their order and with every column as it was; the rows whose
\* predicate value is false or null are dropped.
C16_FilterKeepsTrueRows ==
    (rpc = "done" /\ Len(nodes) = 1 /\ nodes[1].kind = "Filter") =>
        LET child == inputs[nodes[1].children[1]]
            kept == TruePositions(child, nodes[1].predicate)
        IN  /\ Len(ret) = Cardinality(kept)
            /\ \A j \in 1..Len(ret) : ret[j] = child[NthSmallest(kept, j)]
            /\ \A p \in 1..Len(child) :
                  EvalPredicate(nodes[1].predicate, child[p]) \in {"false", "null"}
                      => child[p] \notin Range(ret)

\* of three rows with the mask null, true, true the last two were kept, a
\* null and a nested value in their other column
C16_Witness ==
    /\ rpc = "done" /\ Len(nodes) = 1 /\ nodes[1].kind = "Filter"
    /\ Len(inputs[0]) = 3
    /\ inputs[0][1].flag = "null" /\ inputs[0][2].flag = "true"
    /\ inputs[0][3].flag = "true"
    /\ inputs[0][2].objs = "None" /\ inputs[0][3].objs = "nested"
    /\ ret = <<inputs[0][2], inputs[0][3]>>

----------------------------------------------------------------------------
(* Explode *)

\* the number of rows the claim gives the input row r: one per element, one
\* for a null or empty list
ClaimRowCount(r) ==
    LET n == ListLen(table.rows[r][to_explode[1]]) IN IF n = 0 THEN 1 ELSE n

RECURSIVE ClaimOffset(_)
\* the number of output rows before those of the input row r
ClaimOffset(r) == IF r = 1 THEN 0 ELSE ClaimOffset(r - 1) + ClaimRowCount(r - 1)

\* C17: explode returns the columns in the order of the table and, for each
\* input row in order, one row per list element carrying that element, or
\* one row carrying null when the list is null or empty; the columns that
\* are not exploded repeat the value of the input row; the exploded columns
\* advance together.
C17_ExplodeExpandsRows ==
    xpc = "done" =>
        /\ exploded.columns = table.columns
        /\ Len(exploded.rows) = ClaimOffset(Len(table.rows) + 1)
        /\ \A r \in 1..Len(table.rows) : \A j \in 1..ClaimRowCount(r) :
              LET row == table.rows[r]
                  out == exploded.rows[ClaimOffset(r) + j]
              IN  /\ \A i \in 1..Len(to_explode) :
                        LET cell == row[to_explode[i]] IN
                        out[to_explode[i]] =
                            IF cell.isnull \/ cell.items = <<>> THEN <<>>
                            ELSE <<cell.items[j]>>
                  /\ \A c \in Range(table.columns) \ Range(to_explode) : out[c] = row[c]

\* nested and nested2 were exploded together over the rows [e1, e2] and
\* null: three rows, the sidecar repeated, the last with nulls
C17_Witness ==
    /\ xpc = "done" /\ to_explode = <<"nested", "nested2">>
    /\ table.columns = <<"nested", "nested2", "sidecar">>
    /\ Len(table.rows) = 2
    /\ Len(table.rows[1].nested.items) = 2 /\ table.rows[2].nested.isnull
    /\ exploded.rows =
          <<[nested |-> <<11>>, nested2 |-> <<111>>, sidecar |-> 1],
            [nested |-> <<12>>, nested2 |-> <<112>>, sidecar |-> 1],
            [nested |-> <<>>, nested2 |-> <<>>, sidecar |-> 2]>>

\* C18: when two or more columns are exploded together and the lists of
\* some row differ in length across them, explode raises ValueError and
\* returns no table.
C18_ExplodeRejectsRagged ==
    (xpc \in {"done", "error"} /\ Len(to_explode) >= 2
        /\ \E r \in 1..Len(table.rows), i, k \in 1..Len(to_explode) :
              LET c1 == table.rows[r][to_explode[i]]
                  c2 == table.rows[r][to_explode[k]]
              IN  ~c1.isnull /\ ~c2.isnull /\ Len(c1.items) # Len(c2.items)) =>
        /\ xpc = "error"
        /\ xerr = "ValueError"
        /\ exploded = <<>>

\* a row with a list of two elements in nested and of one in nested2, after
\* a row whose lists match
C18_Witness ==
    /\ xpc = "error" /\ xerr = "ValueError"
    /\ to_explode = <<"nested", "nested2">>
    /\ Len(table.rows) = 2
    /\ Len(table.rows[1].nested.items) = 1 /\ Len(table.rows[1].nested2.items) = 1
    /\ ~table.rows[1].nested.isnull /\ ~table.rows[1].nested2.isnull
    /\ Len(table.rows[2].nested.items) = 2 /\ Len(table.rows[2].nested2.items) = 1

\* the caller's dict has the same keys and the same bindings after the step
CallersInputsKept ==
    /\ DOMAIN inputs' = DOMAIN inputs
    /\ \A k \in DOMAIN inputs : inputs'[k] = inputs[k]

\* C21: run_node_list of both runners works on a copy of the inputs mapping:
\* no step of a call, whether the call returns or fails part-way, changes
\* the keys or the bindings of the mapping the caller supplied.
C21_InputsNeverMutated == [][CallersInputsKept]_vars

\* a call that failed part-way after its registry had gained the output of a
\* node and lost a child, and the caller's dict still holds only the child
C21_Witness ==
    /\ rpc = "error" /\ idx >= 1
    /\ DOMAIN inputs = {0}
    /\ 0 \notin DOMAIN part_set
    /\ DOMAIN part_set # {}

====
